---- MODULE Spec2Model ----
(***************************************************************************)
(* The variable-addressing and formula-evaluation engine of visual-soling: *)
(* ExpressionParser, V2FormulaEvaluator, V2Variable and V2Solution of      *)
(* variable_system_v2.py, and the hybrid layer of                          *)
(* visual_solving_advanced_v2.py built on top of them (HybridVariable,     *)
(* HybridSolution, V2SolutionManager, V2DependencyTracker).                *)
(*                                                                         *)
(* Text is modelled after lexing: a formula is a sequence of tokens, a     *)
(* reference name.solution is one token.  Numbers are integers; a float    *)
(* whose value is integral is the same number (Python: 396 == 396.0).      *)
(***************************************************************************)
EXTENDS Integers, Sequences, FiniteSets, TLC

\* ------------------------------------------------------------------------
\* Input alphabets
\* ------------------------------------------------------------------------

\* Solution names the host registers, and one it never registers.
SolNames == {"X", "Y"}
NoSuch == "nosuch"

\* Variable names and alias names used in statements.
VarNames == {"a", "b", "c"}
AliasNames == {"L"}

\* ------------------------------------------------------------------------
\* Python values: int/float, str, None
\* ------------------------------------------------------------------------

Num(n) == [t |-> "num", n |-> n, s |-> ""]
Str(s) == [t |-> "str", n |-> 0, s |-> s]
None == [t |-> "none", n |-> 0, s |-> ""]

\* isinstance(value, (int, float))
IsNumeric(v) == v.t = "num"

\* computation_error = None
NoError == "None"

\* formula = None
NoFormula == << >>

\* ------------------------------------------------------------------------
\* Tokens of an expression text
\* ------------------------------------------------------------------------

TNum(n) == [k |-> "num", n |-> n, a |-> "", b |-> ""]
TOp(o) == [k |-> "op", n |-> 0, a |-> o, b |-> ""]
TRef(v, s) == [k |-> "ref", n |-> 0, a |-> v, b |-> s]
TWord(w) == [k |-> "word", n |-> 0, a |-> w, b |-> ""]

\* The text "variable.solution" of a reference, kept as a pair.
ReadId(v, s) == <<v, s>>

\* ExpressionParser.extract_variable_references: the set of all
\* variable.solution matches of VARIABLE_REF_PATTERN in the text.
extract_variable_references(formula) ==
    {ReadId(formula[i].a, formula[i].b) : i \in {j \in 1..Len(formula) : formula[j].k = "ref"}}

\* ExpressionParser._contains_variable_references
_contains_variable_references(expression) ==
    \E i \in 1..Len(expression) : expression[i].k = "ref"

\* ExpressionParser._parse_value: int(text), then float(text), else the text.
_parse_value(value_str) ==
    IF Len(value_str) = 1 /\ value_str[1].k = "num" THEN Num(value_str[1].n)
    ELSE IF Len(value_str) = 2 /\ value_str[1] = TOp("-") /\ value_str[2].k = "num"
         THEN Num(0 - value_str[2].n)
    ELSE IF Len(value_str) = 1 /\ value_str[1].k = "word" THEN Str(value_str[1].a)
    ELSE Str("expr")

\* The characters of a name: name[i] of the Python string.
CharAt(name, i) == SubSeq(name, i, i)

\* [a-zA-Z] and [0-9] of the patterns.
Letters ==
    {"a", "b", "c", "d", "e", "f", "g", "h", "i", "j", "k", "l", "m",
     "n", "o", "p", "q", "r", "s", "t", "u", "v", "w", "x", "y", "z",
     "A", "B", "C", "D", "E", "F", "G", "H", "I", "J", "K", "L", "M",
     "N", "O", "P", "Q", "R", "S", "T", "U", "V", "W", "X", "Y", "Z"}
Digits == {"0", "1", "2", "3", "4", "5", "6", "7", "8", "9"}

\* [a-zA-Z_][a-zA-Z0-9_]*, the identifier of ASSIGNMENT_PATTERN,
\* READ_PATTERN and ALIAS_PATTERN.
IsIdentifier(name) ==
    /\ Len(name) > 0
    /\ CharAt(name, 1) \in Letters \cup {"_"}
    /\ \A i \in 2..Len(name) : CharAt(name, i) \in Letters \cup Digits \cup {"_"}

\* ExpressionParser._is_valid_alias: neither '@' nor '.' in the alias.
_is_valid_alias(alias) ==
    \A i \in 1..Len(alias) : CharAt(alias, i) \notin {"@", "."}

\* ------------------------------------------------------------------------
\* eval() of the resolved text: Python's arithmetic grammar
\*   arith  ::= term  (('+'|'-') term)*
\*   term   ::= factor ('*' factor)*
\*   factor ::= ('+'|'-') factor | power
\*   power  ::= atom ['**' factor]
\*   atom   ::= NUMBER | '(' arith ')' | NAME '(' arith [',' arith] ')'
\* A NAME is looked up in safe_dict, which holds FUNCTIONS and no builtins.
\* A parse result is [ok, n, pos]: success, the value, the next position.
\* ------------------------------------------------------------------------

Fail == [ok |-> FALSE, n |-> 0, pos |-> 0]
Ok(n, pos) == [ok |-> TRUE, n |-> n, pos |-> pos]

IsOp(toks, i, o) == i <= Len(toks) /\ toks[i] = TOp(o)

RECURSIVE IntPow(_, _)
IntPow(b, e) == IF e = 0 THEN 1 ELSE b * IntPow(b, e - 1)

RECURSIVE ParseArith(_, _)
RECURSIVE ParseArithRest(_, _)
RECURSIVE ParseTerm(_, _)
RECURSIVE ParseTermRest(_, _)
RECURSIVE ParseFactor(_, _)
RECURSIVE ParsePower(_, _)
RECURSIVE ParseAtom(_, _)

\* The closing parenthesis after the arithmetic e of a parenthesised atom.
CloseParen(toks, e) ==
    IF e.ok /\ IsOp(toks, e.pos, ")") THEN Ok(e.n, e.pos + 1) ELSE Fail

\* V2FormulaEvaluator.FUNCTIONS: the names eval can resolve.
FUNCTIONS == {"sin", "cos", "tan", "sqrt", "abs", "min", "max", "round"}

\* Numbers are integers here; of a float result the integer part is kept.
\* math.sqrt raises on a negative argument.
IntSqrt(x) == CHOOSE r \in 0..x : r * r <= x /\ (r + 1) * (r + 1) > x

\* The integer part of math.tan(x), tabulated for -3..3.
TanPart(x) ==
    CASE x = 1 -> 1 [] x = 2 -> 0 - 2 [] x = 0 - 1 -> 0 - 1 [] x = 0 - 2 -> 2 [] OTHER -> 0

\* round(x, y) of an int x: x itself for y >= 0, else the multiple of
\* 10 ** -y nearest to x, a tie going to the even multiple.
RoundTo(x, y) ==
    IF y >= 0 THEN x
    ELSE LET m == IntPow(10, 0 - y)
             q == x \div m
             rem == x - q * m
         IN  IF 2 * rem < m THEN q * m
             ELSE IF 2 * rem > m THEN (q + 1) * m
             ELSE IF q % 2 = 0 THEN q * m ELSE (q + 1) * m

\* f(x): min and max of one number raise TypeError.
Apply1(f, x, pos) ==
    CASE f = "abs" -> Ok(IF x < 0 THEN 0 - x ELSE x, pos)
      [] f = "round" -> Ok(x, pos)
      [] f = "sqrt" -> IF x < 0 THEN Fail ELSE Ok(IntSqrt(x), pos)
      [] f = "sin" -> Ok(0, pos)
      [] f = "cos" -> Ok(IF x = 0 THEN 1 ELSE 0, pos)
      [] f = "tan" -> Ok(TanPart(x), pos)
      [] OTHER -> Fail

\* f(x, y): the lambdas of one argument and abs raise TypeError.
Apply2(f, x, y, pos) ==
    CASE f = "min" -> Ok(IF x <= y THEN x ELSE y, pos)
      [] f = "max" -> Ok(IF x >= y THEN x ELSE y, pos)
      [] f = "round" -> Ok(RoundTo(x, y), pos)
      [] OTHER -> Fail

\* The closing parenthesis after the last argument, then the call.
Call1(f, a, toks) ==
    IF a.ok /\ IsOp(toks, a.pos, ")") THEN Apply1(f, a.n, a.pos + 1) ELSE Fail
Call2(f, a, b, toks) ==
    IF b.ok /\ IsOp(toks, b.pos, ")") THEN Apply2(f, a.n, b.n, b.pos + 1) ELSE Fail

\* The arguments after "f(": one, or two separated by a comma.
CallArgs(f, toks, a) ==
    IF a.ok /\ IsOp(toks, a.pos, ",") THEN Call2(f, a, ParseArith(toks, a.pos + 1), toks)
    ELSE Call1(f, a, toks)

\* A name: NameError unless FUNCTIONS holds it; a function that is not
\* called cannot be made a float.
ParseCall(toks, i) ==
    IF toks[i].a \notin FUNCTIONS THEN Fail
    ELSE IF ~IsOp(toks, i + 1, "(") THEN Fail
    ELSE CallArgs(toks[i].a, toks, ParseArith(toks, i + 2))

ParseAtom(toks, i) ==
    IF i > Len(toks) THEN Fail
    ELSE IF toks[i].k = "num" THEN Ok(toks[i].n, i + 1)
    ELSE IF toks[i] = TOp("(") THEN CloseParen(toks, ParseArith(toks, i + 1))
    ELSE IF toks[i].k = "word" THEN ParseCall(toks, i)
    ELSE Fail

\* a ** f; a negative exponent leaves the integers.
PowerOf(a, f) == IF f.ok /\ f.n >= 0 THEN Ok(IntPow(a.n, f.n), f.pos) ELSE Fail

ParsePowerRest(toks, a) ==
    IF a.ok /\ IsOp(toks, a.pos, "**") THEN PowerOf(a, ParseFactor(toks, a.pos + 1))
    ELSE a

ParsePower(toks, i) == ParsePowerRest(toks, ParseAtom(toks, i))

\* -f
Negate(f) == IF f.ok THEN Ok(0 - f.n, f.pos) ELSE Fail

ParseFactor(toks, i) ==
    IF IsOp(toks, i, "-") THEN Negate(ParseFactor(toks, i + 1))
    ELSE IF IsOp(toks, i, "+") THEN ParseFactor(toks, i + 1)
    ELSE ParsePower(toks, i)

\* acc * f, acc + t, acc - t
Times(acc, f) == IF f.ok THEN Ok(acc.n * f.n, f.pos) ELSE Fail
Plus(acc, t) == IF t.ok THEN Ok(acc.n + t.n, t.pos) ELSE Fail
Minus(acc, t) == IF t.ok THEN Ok(acc.n - t.n, t.pos) ELSE Fail

ParseTermRest(toks, acc) ==
    IF acc.ok /\ IsOp(toks, acc.pos, "*")
    THEN ParseTermRest(toks, Times(acc, ParseFactor(toks, acc.pos + 1)))
    ELSE acc

ParseTerm(toks, i) == ParseTermRest(toks, ParseFactor(toks, i))

ParseArithRest(toks, acc) ==
    IF acc.ok /\ IsOp(toks, acc.pos, "+")
    THEN ParseArithRest(toks, Plus(acc, ParseTerm(toks, acc.pos + 1)))
    ELSE IF acc.ok /\ IsOp(toks, acc.pos, "-")
    THEN ParseArithRest(toks, Minus(acc, ParseTerm(toks, acc.pos + 1)))
    ELSE acc

ParseArith(toks, i) == ParseArithRest(toks, ParseTerm(toks, i))

\* The whole text must have been consumed.
Complete(toks, e) ==
    IF e.ok /\ e.pos = Len(toks) + 1 THEN [ok |-> TRUE, n |-> e.n]
    ELSE [ok |-> FALSE, n |-> 0]

\* eval(resolved_formula, safe_dict) then float(result): [ok, n].
PyEval(toks) == Complete(toks, ParseArith(toks, 1))

\* resolved_formula.replace('^', '**')
ReplaceCaret(toks) ==
    [i \in 1..Len(toks) |-> IF toks[i] = TOp("^") THEN TOp("**") ELSE toks[i]]

\* str(value) of a number, as the tokens Python lexes it back into: a
\* negative number is a minus sign followed by its magnitude.
StrOfNumber(n) == IF n < 0 THEN <<TOp("-"), TNum(0 - n)>> ELSE <<TNum(n)>>

\* ------------------------------------------------------------------------
\* State
\* ------------------------------------------------------------------------

VARIABLES
    registry,              \* keys of the solution registry handed to formulas
    variables,             \* V2Solution.variables, per solution: name -> V2Variable
    aliases,               \* V2Solution.aliases, per solution: alias -> name
    hvariables,            \* HybridSolution.variables, per solution: name -> HybridVariable
    next_variable_id,      \* HybridSolution.next_variable_id, per solution
    dependency_graph,      \* V2DependencyTracker.dependency_graph
    reverse_dependencies,  \* V2DependencyTracker.reverse_dependencies
    lvariables,            \* legacy HybridSolution.variables, per solution
    legacy_id_counter,     \* legacy HybridSolution.legacy_id_counter, per solution
    legacy_references,     \* legacy HybridSolution.legacy_references, per solution
    call_stack,            \* the get_variable_value calls of the legacy core in progress
    _next_number,          \* SolutionNumberManager._next_number
    _solution_registry,    \* SolutionNumberManager._solution_registry: number -> object
    solutions,             \* the hierarchical Solution objects, in order of construction
    last                   \* the last operation, what it returned, whether it raised

vars == <<registry, variables, aliases, hvariables, next_variable_id,
          dependency_graph, reverse_dependencies, lvariables, legacy_id_counter,
          legacy_references, call_stack, _next_number, _solution_registry, solutions,
          last>>

\* The empty dict.
EmptyDict == << >>

\* ------------------------------------------------------------------------
\* V2Variable
\* ------------------------------------------------------------------------

\* V2Variable.__init__
V2Variable(name, value, solution_name) ==
    [name |-> name, solution_name |-> solution_name, _value |-> value,
     is_formula |-> FALSE, formula |-> NoFormula, dependencies |-> {},
     last_computed_value |-> None, computation_error |-> NoError]

\* "no variable": what dict.get and get_variable return when nothing matches.
NoVariable == V2Variable("", None, "")

\* V2Variable.read_id / HybridVariable.new_read_id: "name.solution"
read_id(var) == ReadId(var.name, var.solution_name)

\* V2Variable.get_computed_value() called without a registry.
CachedValue(var) ==
    IF ~var.is_formula THEN var._value
    ELSE IF var.last_computed_value # None THEN var.last_computed_value
    ELSE Num(0)

\* A getter that hands out the stored literal field of a formula.
value_getter_raw(var) == var._value

\* V2Variable.value (getter)
value_getter(var) == IF var.is_formula THEN CachedValue(var) ELSE var._value

\* A setter that forgets to clear the error.
value_setter_keeps_error(var, new_value) ==
    [var EXCEPT !._value = new_value, !.is_formula = FALSE, !.formula = NoFormula,
                !.dependencies = {}]

\* V2Variable.value (setter)
value_setter(var, new_value) ==
    [var EXCEPT !._value = new_value, !.is_formula = FALSE, !.formula = NoFormula,
                !.dependencies = {}, !.computation_error = NoError]

\* ------------------------------------------------------------------------
\* V2Solution lookups
\* ------------------------------------------------------------------------

\* V2Solution.get_variable: by direct name first, then by alias.
get_variable(vs, al, name_or_alias) ==
    IF name_or_alias \in DOMAIN vs THEN vs[name_or_alias]
    ELSE IF name_or_alias \in DOMAIN al
         THEN IF al[name_or_alias] \in DOMAIN vs THEN vs[al[name_or_alias]] ELSE NoVariable
    ELSE NoVariable

\* ------------------------------------------------------------------------
\* V2FormulaEvaluator
\* ------------------------------------------------------------------------

\* The value replace_reference reads from the variable it found.
referenced_value(variable) ==
    IF variable.is_formula THEN CachedValue(variable) ELSE value_getter(variable)

\* str(value) when the value is numeric, the ValueError otherwise.
numeric_or_error(value) ==
    IF ~IsNumeric(value) THEN [err |-> "is not numeric", n |-> 0]
    ELSE [err |-> NoError, n |-> value.n]

\* A lookup that puts 0 in place of a reference it cannot resolve.
found_or_default(variable) ==
    IF variable = NoVariable THEN [err |-> NoError, n |-> 0]
    ELSE IF ~IsNumeric(referenced_value(variable)) THEN [err |-> NoError, n |-> 0]
    ELSE [err |-> NoError, n |-> referenced_value(variable).n]

\* The variable replace_reference found, or the ValueError.
found_or_error(variable) ==
    IF variable = NoVariable THEN [err |-> "Variable not found", n |-> 0]
    ELSE numeric_or_error(referenced_value(variable))

\* replace_reference: what one reference resolves to, [err, n].
replace_reference(tok, vs, al, reg) ==
    IF tok.b \notin reg THEN [err |-> "Solution not found", n |-> 0]
    ELSE found_or_error(get_variable(vs[tok.b], al[tok.b], tok.a))

\* The text before a match followed by the rest of the substitution.
Prepend(toks, rest) == [err |-> rest.err, toks |-> toks \o rest.toks]

RECURSIVE _resolve_variable_references(_, _, _, _)

\* One match of re.sub: the replacement r, then the rest of the text.
Substitute(r, formula, vs, al, reg) ==
    IF r.err # NoError THEN [err |-> r.err, toks |-> << >>]
    ELSE Prepend(StrOfNumber(r.n), _resolve_variable_references(Tail(formula), vs, al, reg))

\* V2FormulaEvaluator._resolve_variable_references: re.sub over the text,
\* left to right; the first reference that cannot be resolved raises.
_resolve_variable_references(formula, vs, al, reg) ==
    IF formula = << >> THEN [err |-> NoError, toks |-> << >>]
    ELSE IF Head(formula).k # "ref"
    THEN Prepend(<<Head(formula)>>, _resolve_variable_references(Tail(formula), vs, al, reg))
    ELSE Substitute(replace_reference(Head(formula), vs, al, reg), formula, vs, al, reg)

\* float(result), or the ValueError wrapping what eval raised.
EvalResult(result) ==
    IF ~result.ok THEN [ok |-> FALSE, n |-> 0, err |-> "eval failed"]
    ELSE [ok |-> TRUE, n |-> result.n, err |-> NoError]

\* eval of the resolved text, or the ValueError the resolution raised.
EvalResolved(resolved) ==
    IF resolved.err # NoError THEN [ok |-> FALSE, n |-> 0, err |-> resolved.err]
    ELSE EvalResult(PyEval(ReplaceCaret(resolved.toks)))

\* V2FormulaEvaluator.evaluate_formula: [ok, n, err]; ok = FALSE is the
\* ValueError it raises.
evaluate_formula(formula, vs, al, reg) ==
    EvalResolved(_resolve_variable_references(formula, vs, al, reg))

\* ------------------------------------------------------------------------
\* V2Variable.set_formula and get_computed_value, on variable n of solution s
\* of the per-solution table vs
\* ------------------------------------------------------------------------

\* set_formula, first half: the formula, the flag and the dependencies are
\* stored before the evaluation runs.
store_formula(vs, s, n, formula) ==
    [vs EXCEPT ![s][n].formula = formula, ![s][n].is_formula = TRUE,
               ![s][n].dependencies = extract_variable_references(formula)]

\* set_formula, second half: the try/except around evaluate_formula, r
\* being what the evaluation gave.
store_result(vs, s, n, r) ==
    IF r.ok
    THEN [vs EXCEPT ![s][n].last_computed_value = Num(r.n),
                    ![s][n].computation_error = NoError]
    ELSE [vs EXCEPT ![s][n].computation_error = r.err,
                    ![s][n].last_computed_value = Num(0)]

\* The evaluation inside set_formula, over the table that already holds the
\* new formula.
evaluate_stored(vs, al, reg, s, n, formula) ==
    store_result(vs, s, n, evaluate_formula(formula, vs, al, reg))

\* V2Variable.set_formula
set_formula(vs, al, reg, s, n, formula) ==
    evaluate_stored(store_formula(vs, s, n, formula), al, reg, s, n, formula)

\* A get_computed_value that never re-evaluates: it hands out the cache.
get_computed_value_cached(vs, al, reg, s, n) ==
    [vs |-> vs, ret |-> CachedValue(vs[s][n])]

\* The table and the value returned after a re-evaluation whose failure
\* branch resets the cache.
reevaluated_zeroing(vs, s, n, r) ==
    IF r.ok
    THEN [vs |-> [vs EXCEPT ![s][n].last_computed_value = Num(r.n),
                            ![s][n].computation_error = NoError],
          ret |-> Num(r.n)]
    ELSE [vs |-> [vs EXCEPT ![s][n].computation_error = r.err,
                            ![s][n].last_computed_value = Num(0)],
          ret |-> Num(0)]

\* A get_computed_value whose failure branch resets the cache.
get_computed_value_zeroing(vs, al, reg, s, n) ==
    IF ~vs[s][n].is_formula THEN [vs |-> vs, ret |-> vs[s][n]._value]
    ELSE reevaluated_zeroing(vs, s, n, evaluate_formula(vs[s][n].formula, vs, al, reg))

\* The try/except of get_computed_value, r being what the evaluation gave:
\* success stores and returns the value, failure stores the error and returns
\* the last computed value, or 0.0 when there is none.
reevaluated(vs, s, n, r) ==
    IF r.ok
    THEN [vs |-> [vs EXCEPT ![s][n].last_computed_value = Num(r.n),
                            ![s][n].computation_error = NoError],
          ret |-> Num(r.n)]
    ELSE [vs |-> [vs EXCEPT ![s][n].computation_error = r.err],
          ret |-> IF vs[s][n].last_computed_value # None
                  THEN vs[s][n].last_computed_value
                  ELSE Num(0)]

\* get_computed_value(solution_registry): [vs, ret], the table afterwards and
\* the value returned.
get_computed_value(vs, al, reg, s, n) ==
    IF ~vs[s][n].is_formula THEN [vs |-> vs, ret |-> vs[s][n]._value]
    ELSE reevaluated(vs, s, n, evaluate_formula(vs[s][n].formula, vs, al, reg))

\* ------------------------------------------------------------------------
\* Statements and ExpressionParser.parse_expression
\* ------------------------------------------------------------------------

\* "lhs@sol=rhs" and "lhs=rhs"
AtStmt(v, s, rhs) == [at |-> TRUE, lhs |-> v, sol |-> s, rhs |-> rhs]
PlainStmt(n, rhs) == [at |-> FALSE, lhs |-> n, sol |-> "", rhs |-> rhs]

Parsed(type, variable, solution, formula, value) ==
    [type |-> type, variable |-> variable, solution |-> solution,
     formula |-> formula, value |-> value,
     dependencies |-> extract_variable_references(formula)]

\* ExpressionParser.parse_expression: ASSIGNMENT_PATTERN first (FORMULA when
\* the right-hand side holds a reference), then READ_PATTERN, then
\* ALIAS_PATTERN; type "invalid" is the ValueError.
parse_expression(expression) ==
    IF expression.at /\ IsIdentifier(expression.lhs) /\ IsIdentifier(expression.sol)
    THEN IF _contains_variable_references(expression.rhs)
         THEN Parsed("formula", expression.lhs, expression.sol, expression.rhs, None)
         ELSE Parsed("assignment", expression.lhs, expression.sol, NoFormula,
                     _parse_value(expression.rhs))
    ELSE IF expression.at \/ ~IsIdentifier(expression.lhs)
    THEN Parsed("invalid", "", "", NoFormula, None)
    ELSE IF Len(expression.rhs) = 1 /\ expression.rhs[1].k = "ref"
    THEN Parsed("read", expression.lhs, expression.rhs[1].b, NoFormula, None)
    ELSE IF ~_is_valid_alias(expression.lhs)
    THEN Parsed("invalid", "", "", NoFormula, None)
    ELSE Parsed("alias", expression.lhs, "", NoFormula, _parse_value(expression.rhs))

\* ------------------------------------------------------------------------
\* V2Solution
\* ------------------------------------------------------------------------

\* V2Solution.create_variable on the table vs_s of solution s: the new
\* V2Variable is stored under its name, whatever was there.
create_variable(vs_s, s, name, value) ==
    (name :> V2Variable(name, value, s)) @@ vs_s

\* A set_alias that stores the alias without either check.
set_alias_unchecked(vs_s, al_s, alias, variable_name) ==
    [raised |-> FALSE, al |-> (alias :> variable_name) @@ al_s]

\* V2Solution.set_alias on solution tables (vs_s, al_s): [raised, al].
set_alias(vs_s, al_s, alias, variable_name) ==
    IF ~_is_valid_alias(alias) THEN [raised |-> TRUE, al |-> al_s]
    ELSE IF variable_name \notin DOMAIN vs_s THEN [raised |-> TRUE, al |-> al_s]
    ELSE [raised |-> FALSE, al |-> (alias :> variable_name) @@ al_s]

\* The name of the temporary variable an ALIAS statement creates.
AliasVariableName(alias) == "_alias_" \o alias

\* The name get_variable finds for name_or_alias ("" when none).
ResolvedName(vs_s, al_s, name_or_alias) == get_variable(vs_s, al_s, name_or_alias).name

\* "if var_name not in self.variables: self.create_variable(var_name)"
ensure_variable(vs, s, var_name) ==
    IF var_name \in DOMAIN vs[s] THEN vs
    ELSE [vs EXCEPT ![s] = create_variable(vs[s], s, var_name, None)]

\* The ValueError of execute_expression: nothing changes.
raise_unchanged(vs, al) == [raised |-> TRUE, vs |-> vs, al |-> al]

\* ALIAS branch, alias unknown: a temporary variable takes the value and the
\* alias is pointed at it.
alias_new(vs, al, s, alias, value) ==
    LET tmp == AliasVariableName(alias)
        vs1 == create_variable(vs[s], s, tmp, None)
        vs2 == [vs1 EXCEPT ![tmp] = value_setter(@, value)]
        sa == set_alias(vs2, al[s], alias, tmp)
    IN  [raised |-> sa.raised,
         vs |-> [vs EXCEPT ![s] = vs2],
         al |-> [al EXCEPT ![s] = sa.al]]

\* ALIAS branch, alias known: the variable it resolves to takes the value.
alias_assign(vs, al, s, target, value) ==
    [raised |-> FALSE,
     vs |-> IF target = "" THEN vs ELSE [vs EXCEPT ![s][target] = value_setter(@, value)],
     al |-> al]

\* An execute_expression that writes into its own solution whatever solution
\* the statement addresses.
execute_parsed_unaddressed(vs, al, reg, s, parsed) ==
    CASE parsed.type = "assignment" ->
           [raised |-> FALSE,
            vs |-> [ensure_variable(vs, s, parsed.variable)
                      EXCEPT ![s][parsed.variable] = value_setter(@, parsed.value)],
            al |-> al]
      [] parsed.type = "formula" ->
           [raised |-> FALSE,
            vs |-> set_formula(ensure_variable(vs, s, parsed.variable), al, reg, s,
                               parsed.variable, parsed.formula),
            al |-> al]
      [] parsed.type = "alias" ->
           IF parsed.variable \notin DOMAIN vs[s] /\ parsed.variable \notin DOMAIN al[s]
           THEN alias_new(vs, al, s, parsed.variable, parsed.value)
           ELSE alias_assign(vs, al, s, ResolvedName(vs[s], al[s], parsed.variable),
                             parsed.value)
      [] OTHER -> raise_unchanged(vs, al)

\* The branches of execute_expression on the parse result.
execute_parsed(vs, al, reg, s, parsed) ==
    CASE parsed.type = "assignment" ->
           IF parsed.solution # s THEN raise_unchanged(vs, al)
           ELSE [raised |-> FALSE,
                 vs |-> [ensure_variable(vs, s, parsed.variable)
                           EXCEPT ![s][parsed.variable] = value_setter(@, parsed.value)],
                 al |-> al]
      [] parsed.type = "formula" ->
           IF parsed.solution # s THEN raise_unchanged(vs, al)
           ELSE [raised |-> FALSE,
                 vs |-> set_formula(ensure_variable(vs, s, parsed.variable), al, reg, s,
                                    parsed.variable, parsed.formula),
                 al |-> al]
      [] parsed.type = "alias" ->
           IF parsed.variable \notin DOMAIN vs[s] /\ parsed.variable \notin DOMAIN al[s]
           THEN alias_new(vs, al, s, parsed.variable, parsed.value)
           ELSE alias_assign(vs, al, s, ResolvedName(vs[s], al[s], parsed.variable),
                             parsed.value)
      [] OTHER -> raise_unchanged(vs, al)

\* V2Solution.execute_expression on solution s: [raised, vs, al], the tables
\* of all solutions afterwards.
execute_expression(vs, al, reg, s, expression) ==
    execute_parsed(vs, al, reg, s, parse_expression(expression))

\* ------------------------------------------------------------------------
\* Inputs of the operations
\* ------------------------------------------------------------------------

\* Numeric literals assigned by statements are 1..MaxLiteral and -2.
MaxLiteral == 2

\* Literal right-hand sides: "1".."MaxLiteral", "-2", "white".
LitNum(n) == <<TNum(n)>>
LitMax == LitNum(MaxLiteral)
LitNeg == <<TOp("-"), TNum(2)>>
LitText == <<TWord("white")>>
Literals == {LitNum(n) : n \in 1..MaxLiteral} \cup {LitNeg, LitText}

\* Formula right-hand sides: "a.X", "b.Y", "a.X^2-2*b.Y", "a.nosuch", and
\* "1-c.X", which c is given as its own formula.
F_aX == <<TRef("a", "X")>>
F_bY == <<TRef("b", "Y")>>
F_example == <<TRef("a", "X"), TOp("^"), TNum(2), TOp("-"), TNum(2), TOp("*"), TRef("b", "Y")>>
F_nosuch == <<TRef("a", NoSuch)>>
F_self == <<TNum(1), TOp("-"), TRef("c", "X")>>

\* a@X=<literal>, b@Y=<literal>, b@Y=a.X, c@X=a.X^2-2*b.Y, c@X=a.nosuch,
\* c@X=1-c.X
Statements ==
    {AtStmt("a", "X", r) : r \in Literals}
    \cup {AtStmt("b", "Y", r) : r \in {LitMax, F_aX}}
    \cup {AtStmt("c", "X", r) : r \in {F_example, F_nosuch, F_self}}

\* ------------------------------------------------------------------------
\* Operations of the V2 core (variable_system_v2.py), on registered solutions
\* ------------------------------------------------------------------------

\* What the last operation was: its name, the solution and the variable (or
\* alias) it was applied to, a further argument, the statement executed, the
\* value returned, whether it raised, and the variable as it was before the
\* operation.
Last(op, sol, name, arg, expr, ret, raised, before) ==
    [op |-> op, sol |-> sol, name |-> name, arg |-> arg, expr |-> expr, ret |-> ret,
     raised |-> raised, before |-> before]

NoStmt == PlainStmt("", << >>)

\* The variable called name in table vs_s, or NoVariable.
VariableOrNone(vs_s, name) == IF name \in DOMAIN vs_s THEN vs_s[name] ELSE NoVariable

\* The solutions of the legacy hybrid system (visual_solving_advanced.py) are
\* objects of their own.
HierarchyUnchanged == UNCHANGED <<_next_number, _solution_registry, solutions>>

LegacyUnchanged ==
    /\ UNCHANGED <<lvariables, legacy_id_counter, legacy_references, call_stack>>
    /\ HierarchyUnchanged

HybridUnchanged ==
    /\ UNCHANGED <<hvariables, next_variable_id, dependency_graph, reverse_dependencies>>
    /\ LegacyUnchanged

\* solution.execute_expression(expression, solutions)
Execute(s, expression) ==
    \E r \in {execute_expression(variables, aliases, registry, s, expression)} :
        /\ variables' = r.vs
        /\ aliases' = r.al
        /\ last' = Last("execute", s, expression.lhs, "", expression, None, r.raised,
                        VariableOrNone(variables[s], expression.lhs))
        /\ UNCHANGED registry
        /\ HybridUnchanged

\* solution.get_variable(n).get_computed_value(solutions)
GetComputedValue(s, n) ==
    /\ n \in DOMAIN variables[s]
    /\ \E r \in {get_computed_value(variables, aliases, registry, s, n)} :
           /\ variables' = r.vs
           /\ last' = Last("get_computed_value", s, n, "", NoStmt, r.ret, FALSE, variables[s][n])
    /\ UNCHANGED <<registry, aliases>>
    /\ HybridUnchanged

\* solution.get_variable(n).value: for a formula this is get_computed_value()
\* without a registry, which has no assignment in it.
ReadValue(s, n) ==
    /\ n \in DOMAIN variables[s]
    /\ last' = Last("value", s, n, "", NoStmt, value_getter(variables[s][n]), FALSE,
                    variables[s][n])
    /\ UNCHANGED <<registry, variables, aliases>>
    /\ HybridUnchanged

\* The registry of the V2 demo: every solution registered, nothing in them.
Init ==
    /\ registry = SolNames
    /\ variables = [s \in SolNames |-> EmptyDict]
    /\ aliases = [s \in SolNames |-> EmptyDict]
    /\ hvariables = [s \in SolNames |-> EmptyDict]
    /\ next_variable_id = [s \in SolNames |-> 1]
    /\ dependency_graph = EmptyDict
    /\ reverse_dependencies = EmptyDict
    /\ lvariables = [s \in SolNames |-> EmptyDict]
    /\ legacy_id_counter = [s \in SolNames |-> 1]
    /\ legacy_references = [s \in SolNames |-> EmptyDict]
    /\ call_stack = << >>
    /\ _next_number = 1
    /\ _solution_registry = EmptyDict
    /\ solutions = << >>
    /\ last = Last("init", "", "", "", NoStmt, None, FALSE, NoVariable)

\* Statements handed to a solution other than the one they address.
Misaddressed == {AtStmt("a", "X", LitMax), AtStmt("c", "X", F_example)}

Next ==
    \/ \E e \in Statements : Execute(e.sol, e)
    \/ \E e \in Misaddressed : Execute("Y", e)
    \/ \E s \in SolNames, n \in VarNames : GetComputedValue(s, n)
    \/ \E s \in SolNames, n \in VarNames : ReadValue(s, n)

Spec == Init /\ [][Next]_vars

\* ------------------------------------------------------------------------
\* Aliases and direct creation on V2Solution
\* ------------------------------------------------------------------------

\* A set_alias whose alias table is one dict shared by every solution.
SetAlias_shared(s, alias, variable_name) ==
    LET r == set_alias(variables[s], aliases[s], alias, variable_name)
    IN  /\ aliases' = [x \in SolNames |->
                         IF r.raised THEN aliases[x] ELSE (alias :> variable_name) @@ aliases[x]]
        /\ last' = Last("set_alias", s, alias, variable_name, NoStmt, None, r.raised,
                        VariableOrNone(variables[s], variable_name))
        /\ UNCHANGED <<registry, variables>>
        /\ HybridUnchanged

\* solution.set_alias(alias, variable_name)
SetAlias(s, alias, variable_name) ==
    LET r == set_alias(variables[s], aliases[s], alias, variable_name)
    IN  /\ aliases' = [aliases EXCEPT ![s] = r.al]
        /\ last' = Last("set_alias", s, alias, variable_name, NoStmt, None, r.raised,
                        VariableOrNone(variables[s], variable_name))
        /\ UNCHANGED <<registry, variables>>
        /\ HybridUnchanged

\* solution.create_variable(name, value)
CreateVariable(s, name, value) ==
    /\ variables' = [variables EXCEPT ![s] = create_variable(@, s, name, value)]
    /\ last' = Last("create_variable", s, name, "", NoStmt, None, FALSE,
                    VariableOrNone(variables[s], name))
    /\ UNCHANGED <<registry, aliases>>
    /\ HybridUnchanged

\* The formula "L.X": a reference through a name that is an alias in X.
F_LX == <<TRef("L", "X")>>

\* L=<MaxLiteral>, t=a.X and b@Y=L.X, run inside a solution
AliasStatements == {PlainStmt("L", LitMax), PlainStmt("t", F_aX), AtStmt("b", "Y", F_LX)}

AliasNext ==
    \/ \E s \in SolNames, al \in {"L", "a"}, n \in {"a", "b"} : SetAlias(s, al, n)
    \/ \E s \in SolNames : CreateVariable(s, "a", Num(MaxLiteral))
    \/ \E s \in SolNames, e \in AliasStatements : Execute(s, e)

AliasSpec == Init /\ [][AliasNext]_vars

\* ------------------------------------------------------------------------
\* The hybrid layer (visual_solving_advanced_v2.py)
\* ------------------------------------------------------------------------

\* Each solution hands out variable ids up to MaxVariableId.
MaxVariableId == 2

\* HybridVariable.__init__: it builds a V2Variable of its own.
HybridVariable(name, value, var_type, solution_name, variable_id, als) ==
    [name |-> name, solution_name |-> solution_name, variable_id |-> variable_id,
     var_type |-> var_type, aliases |-> als,
     v2_variable |-> V2Variable(name, value, solution_name)]

NoHybridVariable == HybridVariable("", None, "", "", 0, << >>)

\* References: "name", "name@solution", "name.solution", "#id", "#id.name"
Reference(kind, name, solution, id) ==
    [kind |-> kind, name |-> name, solution |-> solution, id |-> id]

\* HybridVariable.new_write_id, new_read_id, legacy_id, legacy_full_id
new_write_id(var) == Reference("write", var.name, var.solution_name, 0)
new_read_id(var) == Reference("read", var.name, var.solution_name, 0)
legacy_id(var) == Reference("legacy", "", "", var.variable_id)
legacy_full_id(var) == Reference("legacy_full", var.name, "", var.variable_id)
bare_name(var) == Reference("name", var.name, "", 0)

\* "var.v2_variable is v2_var": the V2Variable a HybridVariable builds in its
\* constructor and the one V2Solution.create_variable builds are two objects;
\* no code path stores one of them in the other's place.
IsSameObject(hvar, v2_var) == FALSE

\* The variable of table hv_s with this variable_id, or NoHybridVariable.
ByVariableId(hv_s, id) ==
    IF \E n \in DOMAIN hv_s : hv_s[n].variable_id = id
    THEN hv_s[CHOOSE n \in DOMAIN hv_s : hv_s[n].variable_id = id]
    ELSE NoHybridVariable

InSeq(x, seq) == \E i \in 1..Len(seq) : seq[i] = x

\* HybridSolution.get_variable_by_reference: direct name, "#id", "#id.name",
\* a V2 name or alias whose V2Variable is the hybrid variable's own, an alias
\* of the hybrid variable's list; else None.
get_variable_by_reference(hv_s, vs_s, al_s, reference) ==
    LET isName == reference.kind = "name"
        hash == reference.kind \in {"legacy", "legacy_full"}
        v2_var == IF isName THEN get_variable(vs_s, al_s, reference.name) ELSE NoVariable
    IN  IF isName /\ reference.name \in DOMAIN hv_s THEN hv_s[reference.name]
        ELSE IF hash /\ ByVariableId(hv_s, reference.id) # NoHybridVariable
        THEN ByVariableId(hv_s, reference.id)
        ELSE IF v2_var # NoVariable /\ \E n \in DOMAIN hv_s : IsSameObject(hv_s[n], v2_var)
        THEN hv_s[CHOOSE n \in DOMAIN hv_s : IsSameObject(hv_s[n], v2_var)]
        ELSE IF isName /\ \E n \in DOMAIN hv_s : InSeq(reference.name, hv_s[n].aliases)
        THEN hv_s[CHOOSE n \in DOMAIN hv_s : InSeq(reference.name, hv_s[n].aliases)]
        ELSE NoHybridVariable

\* V2DependencyTracker.add_dependency: [graph, reverse]
add_dependency(graph, reverse, variable_id, deps) ==
    [graph |-> (variable_id :> deps) @@ graph,
     reverse |-> [d \in DOMAIN reverse \cup deps |->
                    (IF d \in DOMAIN reverse THEN reverse[d] ELSE {})
                    \cup (IF d \in deps THEN {variable_id} ELSE {})]]

\* The loop of HybridSolution.create_variable over its aliases: set_alias on
\* each, a ValueError printed and dropped.
RECURSIVE SetAliases(_, _, _, _)
SetAliases(vs_s, al_s, als, name) ==
    IF als = << >> THEN al_s
    ELSE SetAliases(vs_s, set_alias(vs_s, al_s, Head(als), name).al, Tail(als), name)

\* HybridSolution.__init__(name): a fresh V2Solution, no variables, ids from
\* 1, registered in v2_solution_manager under its name.
NewHybridSolution(s) ==
    /\ registry' = registry \cup {s}
    /\ variables' = [variables EXCEPT ![s] = EmptyDict]
    /\ aliases' = [aliases EXCEPT ![s] = EmptyDict]
    /\ hvariables' = [hvariables EXCEPT ![s] = EmptyDict]
    /\ next_variable_id' = [next_variable_id EXCEPT ![s] = 1]
    /\ last' = Last("new_solution", s, "", "", NoStmt, None, FALSE, NoVariable)
    /\ UNCHANGED <<dependency_graph, reverse_dependencies>>
    /\ LegacyUnchanged

\* HybridSolution.create_variable(name, value, var_type, aliases)
HCreateVariable(s, name, value, var_type, als) ==
    /\ s \in registry
    /\ next_variable_id[s] <= MaxVariableId
    /\ LET vs1 == create_variable(variables[s], s, name, value)
           hybrid_var == HybridVariable(name, value, var_type, s, next_variable_id[s], als)
       IN  /\ variables' = [variables EXCEPT ![s] = vs1]
           /\ hvariables' = [hvariables EXCEPT ![s] = (name :> hybrid_var) @@ @]
           /\ next_variable_id' = [next_variable_id EXCEPT ![s] = @ + 1]
           /\ aliases' = [aliases EXCEPT ![s] = SetAliases(vs1, @, als, name)]
    /\ last' = Last("create_variable", s, name, "", NoStmt, None, FALSE,
                    VariableOrNone(variables[s], name))
    /\ UNCHANGED <<registry, dependency_graph, reverse_dependencies>>
    /\ LegacyUnchanged

\* HybridSolution.execute_v2_expression(expression): the V2 solution runs the
\* statement against v2_solution_manager's registry (an error leaves the
\* method there); then a Formula statement whose variable
\* get_variable_by_reference finds is recorded in the tracker.
ExecuteV2(s, expression) ==
    /\ s \in registry
    /\ LET r == execute_expression(variables, aliases, registry, s, expression)
           parsed == parse_expression(expression)
           var == get_variable_by_reference(hvariables[s], r.vs[s], r.al[s],
                                            Reference("name", parsed.variable, "", 0))
           tracked == ~r.raised /\ parsed.type = "formula" /\ var # NoHybridVariable
           t == add_dependency(dependency_graph, reverse_dependencies,
                               read_id(var), parsed.dependencies)
       IN  /\ variables' = r.vs
           /\ aliases' = r.al
           /\ dependency_graph' = IF tracked THEN t.graph ELSE dependency_graph
           /\ reverse_dependencies' = IF tracked THEN t.reverse ELSE reverse_dependencies
           /\ last' = Last("execute", s, expression.lhs, "", expression, None, r.raised,
                           VariableOrNone(variables[s], expression.lhs))
    /\ UNCHANGED <<registry, hvariables, next_variable_id>>
    /\ LegacyUnchanged

\* solution.get_variable_by_reference(reference), the reference being one of
\* the ids of variable name of the solution.
GetVariableByReference(s, name, kind) ==
    /\ s \in registry
    /\ name \in DOMAIN hvariables[s]
    /\ LET var == hvariables[s][name]
           reference == CASE kind = "write" -> new_write_id(var)
                          [] kind = "read" -> new_read_id(var)
                          [] kind = "legacy" -> legacy_id(var)
                          [] kind = "legacy_full" -> legacy_full_id(var)
                          [] OTHER -> bare_name(var)
           found == get_variable_by_reference(hvariables[s], variables[s], aliases[s], reference)
       IN  last' = Last("get_variable_by_reference", s, name, kind, NoStmt,
                        IF found = NoHybridVariable THEN None ELSE Str(found.name),
                        FALSE, NoVariable)
    /\ UNCHANGED <<registry, variables, aliases, hvariables, next_variable_id,
                   dependency_graph, reverse_dependencies>>
    /\ LegacyUnchanged

\* v2_solution_manager after reset(): no solution registered.
HybridInit ==
    /\ registry = {}
    /\ variables = [s \in SolNames |-> EmptyDict]
    /\ aliases = [s \in SolNames |-> EmptyDict]
    /\ hvariables = [s \in SolNames |-> EmptyDict]
    /\ next_variable_id = [s \in SolNames |-> 1]
    /\ dependency_graph = EmptyDict
    /\ reverse_dependencies = EmptyDict
    /\ lvariables = [s \in SolNames |-> EmptyDict]
    /\ legacy_id_counter = [s \in SolNames |-> 1]
    /\ legacy_references = [s \in SolNames |-> EmptyDict]
    /\ call_stack = << >>
    /\ _next_number = 1
    /\ _solution_registry = EmptyDict
    /\ solutions = << >>
    /\ last = Last("init", "", "", "", NoStmt, None, FALSE, NoVariable)

\* a@X=<MaxLiteral>, a@X=b.Y, b@Y=a.X
HybridStatements ==
    {AtStmt("a", "X", LitMax), AtStmt("a", "X", F_bY), AtStmt("b", "Y", F_aX)}

\* The variables the host creates: a in X, b in Y.
HybridCreated == {<<"X", "a">>, <<"Y", "b">>}

ReferenceKinds == {"name", "write", "read", "legacy", "legacy_full"}

HybridNext ==
    \/ \E s \in SolNames : NewHybridSolution(s)
    \/ \E c \in HybridCreated, als \in {<< >>, <<"L">>} :
          HCreateVariable(c[1], c[2], Num(1), "controllable", als)
    \/ \E e \in HybridStatements : ExecuteV2(e.sol, e)
    \/ \E s \in SolNames, n \in VarNames, k \in ReferenceKinds : GetVariableByReference(s, n, k)

HybridSpec == HybridInit /\ [][HybridNext]_vars

\* ------------------------------------------------------------------------
\* Properties
\* ------------------------------------------------------------------------

\* The variable the last operation was applied to, as it is now.
Target == VariableOrNone(variables[last.sol], last.name)

LastExecuted(type) ==
    /\ last.op = "execute"
    /\ ~last.raised
    /\ parse_expression(last.expr).type = type

LastRead == last.op = "get_computed_value"

\* The reference tok names a variable that exists, is a literal and is numeric.
IsNumericLiteralRef(tok) ==
    /\ tok.b \in registry
    /\ tok.a \in DOMAIN variables[tok.b]
    /\ ~variables[tok.b][tok.a].is_formula
    /\ IsNumeric(variables[tok.b][tok.a]._value)

RefsOf(formula) == {formula[i] : i \in {j \in 1..Len(formula) : formula[j].k = "ref"}}

\* The formula with every reference replaced by the referenced literal's
\* value as an operand of its own, "(value)".
RECURSIVE SubstituteOperands(_)
SubstituteOperands(formula) ==
    IF formula = << >> THEN << >>
    ELSE LET tok == Head(formula)
         IN  IF tok.k = "ref"
             THEN <<TOp("(")>> \o StrOfNumber(variables[tok.b][tok.a]._value.n)
                  \o <<TOp(")")>> \o SubstituteOperands(Tail(formula))
             ELSE <<tok>> \o SubstituteOperands(Tail(formula))

\* The arithmetic result of substituting the referenced values into formula.
ArithmeticResult(formula) == PyEval(ReplaceCaret(SubstituteOperands(formula)))

\* C1: after a Formula statement whose formula references only existing
\* numeric literal variables, the variable has no computation_error and its
\* value is the arithmetic result of substituting each referenced variable's
\* current value into the formula.
C1_FormulaOverLiterals ==
    (LastExecuted("formula") /\ \A tok \in RefsOf(last.expr.rhs) : IsNumericLiteralRef(tok))
    => /\ Target.computation_error = NoError
       /\ ArithmeticResult(last.expr.rhs).ok
       /\ value_getter(Target) = Num(ArithmeticResult(last.expr.rhs).n)

\* C2: when set_formula fails on a variable that holds a cached value from an
\* earlier successful evaluation, the error is recorded and
\* last_computed_value is left as it was.
C2_FailedSetFormulaKeepsCache ==
    (/\ LastExecuted("formula")
     /\ Target.computation_error # NoError
     /\ last.before.is_formula
     /\ last.before.computation_error = NoError
     /\ IsNumeric(last.before.last_computed_value))
    => Target.last_computed_value = last.before.last_computed_value

\* The table vs after k rounds in which every formula variable is evaluated
\* again against the round before.
RECURSIVE Refreshed(_, _)
Refreshed(vs, k) ==
    IF k = 0 THEN vs
    ELSE LET prev == Refreshed(vs, k - 1)
         IN  [s \in DOMAIN vs |->
                [n \in DOMAIN vs[s] |->
                   LET r == evaluate_formula(vs[s][n].formula, prev, aliases, registry)
                   IN  IF vs[s][n].is_formula /\ r.ok
                       THEN [vs[s][n] EXCEPT !.last_computed_value = Num(r.n)]
                       ELSE vs[s][n]]]

\* Every reference of formula names an existing variable that is a numeric
\* literal or a formula over numeric literals only, evaluated without error
\* when it was last evaluated.
IsChainOverLiterals(formula) ==
    \A tok \in RefsOf(formula) :
        /\ tok.b \in registry
        /\ tok.a \in DOMAIN variables[tok.b]
        /\ LET v == variables[tok.b][tok.a]
           IN  IF v.is_formula
               THEN /\ v.computation_error = NoError
                    /\ \A t2 \in RefsOf(v.formula) : IsNumericLiteralRef(t2)
               ELSE IsNumeric(v._value)

\* C4: get_computed_value(reg) on a formula whose references are literals or
\* formulas over literals returns the result computed from the literals'
\* current values, the referenced formulas being evaluated again.
C4_RecursiveReevaluation ==
    (LastRead /\ Target.is_formula /\ IsChainOverLiterals(Target.formula))
    => LET fresh == evaluate_formula(Target.formula, Refreshed(variables, 1), aliases, registry)
       IN  fresh.ok => last.ret = Num(fresh.n)

\* The last operation read a formula that is one reference to an existing
\* numeric literal.
ReadOfLiteralCopy ==
    /\ LastRead
    /\ Target.is_formula
    /\ Len(Target.formula) = 1
    /\ Target.formula[1].k = "ref"
    /\ IsNumericLiteralRef(Target.formula[1])

\* C5: get_computed_value(reg) on a formula that is a reference to a literal
\* returns the literal's current value and stores it as the cached value.
C5_PullFreshness ==
    ReadOfLiteralCopy
    => LET src == variables[Target.formula[1].b][Target.formula[1].a]
       IN  /\ last.ret = src._value
           /\ Target.last_computed_value = src._value
           /\ Target.computation_error = NoError

\* C5 witness: the literal was reassigned since the formula was last
\* evaluated, and the read returned the new value.
C5_Witness ==
    /\ ReadOfLiteralCopy
    /\ last.before.computation_error = NoError
    /\ IsNumeric(last.before.last_computed_value)
    /\ last.before.last_computed_value # last.ret
    /\ last.ret = Target.last_computed_value

\* C7: assigning a literal, from any prior state of the variable, makes the
\* value read back the literal, is_formula false, formula None, the
\* dependencies empty and computation_error None.
C7_SetLiteral ==
    LastExecuted("assignment")
    => /\ value_getter(Target) = parse_expression(last.expr).value
       /\ ~Target.is_formula
       /\ Target.formula = NoFormula
       /\ Target.dependencies = {}
       /\ Target.computation_error = NoError

\* C7 witness: a literal was assigned to a variable that was a formula in
\* error.
C7_Witness ==
    /\ LastExecuted("assignment")
    /\ last.before.is_formula
    /\ last.before.computation_error # NoError
    /\ value_getter(Target) = Num(MaxLiteral)

\* The table of variables as it was when the last get_computed_value was
\* called: the call assigns to the fields of its own variable only.
BeforeRead == [variables EXCEPT ![last.sol][last.name] = last.before]

\* C8: get_computed_value(reg) on a formula either fails, and then sets
\* computation_error, leaves last_computed_value as it was and returns it, or
\* succeeds, and then clears computation_error and caches and returns the
\* new result.
C8_Reevaluation ==
    (LastRead /\ last.before.is_formula)
    => LET r == evaluate_formula(last.before.formula, BeforeRead, aliases, registry)
       IN  /\ Target.is_formula
           /\ Target.formula = last.before.formula
           /\ (Target.computation_error # NoError) = ~r.ok
           /\ IF ~r.ok
              THEN /\ Target.last_computed_value = last.before.last_computed_value
                   /\ last.ret = last.before.last_computed_value
              ELSE /\ Target.last_computed_value = Num(r.n)
                   /\ last.ret = Num(r.n)

\* C8 witness: a formula that was in error while still holding a good
\* number evaluates again and becomes valid.
C8_Witness ==
    /\ LastRead
    /\ last.before.is_formula
    /\ last.before.computation_error # NoError
    /\ IsNumeric(last.before.last_computed_value)
    /\ last.before.last_computed_value # Num(0)
    /\ Target.computation_error = NoError

\* The variables the tracker records variable_id as depending on.
Successors(variable_id) ==
    IF variable_id \in DOMAIN dependency_graph THEN dependency_graph[variable_id] ELSE {}

\* The ids reached from the set ids in at most k further edges.
RECURSIVE ReachableFrom(_, _)
ReachableFrom(ids, k) ==
    IF k = 0 THEN ids
    ELSE ReachableFrom(ids \cup UNION {Successors(m) : m \in ids}, k - 1)

\* C3: a statement that would close a cycle is rejected before it is
\* committed, so the dependency graph held by the tracker is acyclic in every
\* reachable state: no variable is reached from itself along its edges.
C3_Acyclic ==
    \A id \in DOMAIN dependency_graph :
        id \notin ReachableFrom(Successors(id), Cardinality(DOMAIN dependency_graph))

\* C6: get_variable_by_reference applied to a variable's write id
\* (name@solution), read id (name.solution) and legacy reference (#id.name)
\* returns that variable.
C6_AddressRoundTrip ==
    (last.op = "get_variable_by_reference" /\ last.arg \in {"write", "read", "legacy_full"})
    => last.ret = Str(last.name)

\* C9: create_variable with a name already taken in the solution fails and
\* leaves the existing variable, its legacy id and the id counter unchanged.
C9_CreateExistingFails ==
    [][(last'.op = "create_variable" /\ last'.name \in DOMAIN hvariables[last'.sol])
       => /\ last'.raised
          /\ UNCHANGED <<variables, hvariables, next_variable_id>>]_vars

\* C10: set_alias fails and leaves the alias table unchanged whenever the
\* target variable does not exist or the alias is the name of an existing
\* variable or of an existing alias of the solution.
C10_SetAliasRejects ==
    [][(/\ last'.op = "set_alias"
        /\ \/ last'.arg \notin DOMAIN variables[last'.sol]
           \/ last'.name \in DOMAIN variables[last'.sol]
           \/ last'.name \in DOMAIN aliases[last'.sol])
       => /\ last'.raised
          /\ UNCHANGED aliases]_vars

\* The last operation executed a Read statement whose source variable exists.
ReadStatementOfExisting ==
    /\ last.op = "execute"
    /\ parse_expression(last.expr).type = "read"
    /\ last.expr.rhs[1].b \in registry
    /\ last.expr.rhs[1].a \in DOMAIN variables[last.expr.rhs[1].b]

\* C11: executing a Read statement 't=v.s' completes without raising an
\* error and turns nothing into a formula.
C11_ReadStatement ==
    ReadStatementOfExisting
    => /\ ~last.raised
       /\ \A s \in SolNames : \A n \in DOMAIN variables[s] : ~variables[s][n].is_formula

\* C12: after every successful Formula statement 'v@S=<expr>', whether v
\* existed or is created by the statement, the tracker's forward set for the
\* read id 'v.S' is exactly the set of references extracted from <expr>.
C12_TrackerRecordsFormula ==
    LastExecuted("formula")
    => /\ ReadId(last.name, last.sol) \in DOMAIN dependency_graph
       /\ dependency_graph[ReadId(last.name, last.sol)]
            = extract_variable_references(last.expr.rhs)

\* ------------------------------------------------------------------------
\* V2DependencyTracker on its own
\* ------------------------------------------------------------------------

\* V2DependencyTracker.get_dependencies / get_dependent_variables
get_dependencies(graph, variable_id) ==
    IF variable_id \in DOMAIN graph THEN graph[variable_id] ELSE {}
get_dependent_variables(reverse, variable_id) ==
    IF variable_id \in DOMAIN reverse THEN reverse[variable_id] ELSE {}

\* bool as a value
PyBool(b) == Str(IF b THEN "True" ELSE "False")

\* has_circular_dependency.check_circular, the visited set threaded through:
\* [found, visited].  The answer does not depend on the order in which the
\* for loop visits a set.
RECURSIVE check_circular(_, _, _, _)
RECURSIVE check_deps(_, _, _, _)

\* The rest of the for loop after the call for one dependency gave r.
check_rest(graph, deps, path, r) ==
    IF r.found THEN r ELSE check_deps(graph, deps, path, r.visited)

\* "for dep in var_deps: if check_circular(dep, path): return True"
check_deps(graph, deps, path, visited) ==
    IF deps = {} THEN [found |-> FALSE, visited |-> visited]
    ELSE check_rest(graph, deps \ {CHOOSE d \in deps : TRUE}, path,
                    check_circular(graph, CHOOSE d \in deps : TRUE, path, visited))

check_circular(graph, var_id, path, visited) ==
    IF var_id \in path THEN [found |-> TRUE, visited |-> visited]
    ELSE IF var_id \in visited THEN [found |-> FALSE, visited |-> visited]
    ELSE check_deps(graph, get_dependencies(graph, var_id), path \cup {var_id},
                    visited \cup {var_id})

\* V2DependencyTracker.has_circular_dependency: the dependencies argument is
\* not used by the body.
has_circular_dependency(graph, variable_id, dependencies) ==
    check_circular(graph, variable_id, {}, {}).found

\* tracker.add_dependency(v.S, references of rhs), the call written as the
\* statement v@S=rhs it comes from
AddDependency(e) ==
    /\ \E t \in {add_dependency(dependency_graph, reverse_dependencies,
                               ReadId(e.lhs, e.sol), extract_variable_references(e.rhs))} :
           /\ dependency_graph' = t.graph
           /\ reverse_dependencies' = t.reverse
    /\ last' = Last("add_dependency", e.sol, e.lhs, "", e, None, FALSE, NoVariable)
    /\ UNCHANGED <<registry, variables, aliases, hvariables, next_variable_id>>
    /\ LegacyUnchanged

\* tracker.has_circular_dependency(v.S, references of rhs)
HasCircularDependency(e) ==
    /\ last' = Last("has_circular_dependency", e.sol, e.lhs, "", e,
                    PyBool(has_circular_dependency(dependency_graph, ReadId(e.lhs, e.sol),
                                                   extract_variable_references(e.rhs))),
                    FALSE, NoVariable)
    /\ UNCHANGED <<registry, variables, aliases, hvariables, next_variable_id,
                   dependency_graph, reverse_dependencies>>
    /\ LegacyUnchanged

\* Dependency sets: none, a.X, b.Y, c.X, {b.Y, c.X}
F_cX == <<TRef("c", "X")>>
TrackerDependencies == {<< >>, F_aX, F_bY, F_cX, F_bY \o <<TOp("+")>> \o F_cX}

\* The calls made on the tracker: for a.X and b.Y, each dependency set.
TrackerStatements ==
    {AtStmt("a", "X", r) : r \in TrackerDependencies}
    \cup {AtStmt("b", "Y", r) : r \in TrackerDependencies}

TrackerNext ==
    \/ \E e \in TrackerStatements : AddDependency(e)
    \/ \E e \in TrackerStatements : HasCircularDependency(e)

\* A fresh V2DependencyTracker.
TrackerSpec == HybridInit /\ [][TrackerNext]_vars

\* Every id the tracker has seen, as a dependent or as a dependency.
TrackedIds ==
    DOMAIN dependency_graph \cup DOMAIN reverse_dependencies
    \cup UNION {dependency_graph[x] : x \in DOMAIN dependency_graph}
    \cup UNION {reverse_dependencies[y] : y \in DOMAIN reverse_dependencies}

\* C13: after any sequence of add_dependency calls, overwrites included,
\* forward and reverse edges agree: get_dependent_variables(y) contains x if
\* and only if y is in get_dependencies(x).
C13_ForwardReverseAgree ==
    \A x \in TrackedIds, y \in TrackedIds :
        (x \in get_dependent_variables(reverse_dependencies, y))
        <=> (y \in get_dependencies(dependency_graph, x))

\* C14: has_circular_dependency(start, newDeps) returns true exactly when
\* start is in newDeps or start is reachable from a member of newDeps along
\* the existing forward edges.
C14_HasCircularDependency ==
    last.op = "has_circular_dependency"
    => last.ret = PyBool(ReadId(last.name, last.sol)
                           \in ReachableFrom(extract_variable_references(last.expr.rhs),
                                             Cardinality(DOMAIN dependency_graph)))

\* ------------------------------------------------------------------------
\* The legacy hybrid system (visual_solving_advanced.py)
\* ------------------------------------------------------------------------

\* Each legacy solution hands out legacy ids up to MaxLegacyId.
MaxLegacyId == 2

\* A legacy reference "#<id>.<name>" as one token.
TLegacy(id, name) == [k |-> "legacy", n |-> id, a |-> name, b |-> ""]

\* "legacy_id = None"
NoLegacyId == 0

\* The solutions in the order register_solution stored them in
\* global_solutions_registry.
LegacyOrder == <<"X", "Y">>

\* HybridVariable.__init__ (legacy): a Variable with a legacy_id.  A value
\* that is a str is a formula.
LegacyVariable(name, value, formula, is_formula, variable_type, lid, deps) ==
    [name |-> name, value |-> value, formula |-> formula, is_formula |-> is_formula,
     variable_type |-> variable_type, legacy_id |-> lid, dependencies |-> deps]

\* ExpressionParser.find_read_references over a formula, as the dependency
\* keys set_variable builds from it, "<solution>.<variable>": the pattern
\* (\w+)\.(\w+) finds 'v.s' in a reference and '<id>.<name>' in a legacy
\* reference.
find_read_references(formula) ==
    {<<formula[i].b, formula[i].a>> : i \in {j \in 1..Len(formula) : formula[j].k = "ref"}}
    \cup {<<formula[i].a, ToString(formula[i].n)>> :
            i \in {j \in 1..Len(formula) : formula[j].k = "legacy"}}

\* HybridSolution.set_variable (legacy) on solution s:
\* [variables, counter, references] of that solution afterwards.
set_variable(lv_s, counter, refs, var_name, value, formula, is_formula, auto_assign_legacy_id) ==
    [variables |->
        (var_name :> LegacyVariable(var_name, value, formula, is_formula,
                                    IF is_formula THEN "calculated" ELSE "controllable",
                                    IF auto_assign_legacy_id THEN counter ELSE NoLegacyId,
                                    IF is_formula THEN find_read_references(formula) ELSE {}))
        @@ lv_s,
     counter |-> IF auto_assign_legacy_id THEN counter + 1 ELSE counter,
     references |-> IF auto_assign_legacy_id THEN (counter :> var_name) @@ refs ELSE refs]

\* The first solution of the registry, from position i on, whose
\* legacy_references maps the id to var_name; "" is None.
RECURSIVE FirstRegistered(_, _, _, _)
FirstRegistered(refs, lid, var_name, i) ==
    IF i > Len(LegacyOrder) THEN ""
    ELSE IF /\ lid \in DOMAIN refs[LegacyOrder[i]]
            /\ refs[LegacyOrder[i]][lid] = var_name
    THEN LegacyOrder[i]
    ELSE FirstRegistered(refs, lid, var_name, i + 1)

\* HybridSolution._find_solution_by_legacy_id on solution cur
_find_solution_by_legacy_id(refs, cur, lid, var_name) ==
    IF lid \in DOMAIN refs[cur] THEN cur
    ELSE FirstRegistered(refs, lid, var_name, 1)

\* What one token of the expression is rewritten to, target being the
\* solution found for it.
converted_token(tok, target) ==
    IF target = "" THEN tok ELSE TRef(tok.a, target)

\* HybridFormulaEvaluator._convert_legacy_references with current_solution
\* cur.  (str.replace works on text; with the names and ids used here no
\* legacy reference is part of another.)
_convert_legacy_references(refs, cur, expression) ==
    [i \in 1..Len(expression) |->
        IF expression[i].k = "legacy"
        THEN converted_token(expression[i],
                             _find_solution_by_legacy_id(refs, cur, expression[i].n,
                                                         expression[i].a))
        ELSE expression[i]]

\* solution.set_variable(var_name, value, auto_assign_legacy_id=...)
LSetVariable(s, var_name, value, formula, is_formula, auto_assign_legacy_id) ==
    /\ auto_assign_legacy_id => legacy_id_counter[s] <= MaxLegacyId
    /\ \E r \in {set_variable(lvariables[s], legacy_id_counter[s], legacy_references[s],
                             var_name, value, formula, is_formula, auto_assign_legacy_id)} :
           /\ lvariables' = [lvariables EXCEPT ![s] = r.variables]
           /\ legacy_id_counter' = [legacy_id_counter EXCEPT ![s] = r.counter]
           /\ legacy_references' = [legacy_references EXCEPT ![s] = r.references]
    /\ last' = Last("set_variable", s, var_name, "", NoStmt, PyBool(TRUE), FALSE, NoVariable)
    /\ UNCHANGED <<registry, variables, aliases, hvariables, next_variable_id,
                   dependency_graph, reverse_dependencies, call_stack>>
    /\ HierarchyUnchanged

\* solution.evaluator._convert_legacy_references(expression, solution)
ConvertLegacyReferences(s, expression) ==
    /\ last' = Last("convert_legacy_references", s, "", "", PlainStmt("", expression),
                    _convert_legacy_references(legacy_references, s, expression),
                    FALSE, NoVariable)
    /\ UNCHANGED <<registry, variables, aliases, hvariables, next_variable_id,
                   dependency_graph, reverse_dependencies>>
    /\ LegacyUnchanged

\* Formulas with a legacy reference: "#<id>.<name>" and "#1.a+#1.b"
LegacyFormulas ==
    {<<TLegacy(i, n)>> : i \in 1..MaxLegacyId, n \in {"a", "b"}}
    \cup {<<TLegacy(1, "a"), TOp("+"), TLegacy(1, "b")>>}

LegacyNext ==
    \/ \E s \in SolNames, n \in {"a", "b"} : LSetVariable(s, n, Num(1), NoFormula, FALSE, TRUE)
    \/ LSetVariable("X", "a", None, <<TLegacy(1, "b"), TOp("+"), TRef("b", "Y")>>, TRUE, TRUE)
    \/ LSetVariable("X", "a", Num(1), NoFormula, FALSE, FALSE)
    \/ \E s \in SolNames, f \in LegacyFormulas : ConvertLegacyReferences(s, f)

\* Two legacy HybridSolutions, registered, without variables.
LegacySpec == Init /\ [][LegacyNext]_vars

\* C15: a variable's legacy id is assigned once, when it is first created:
\* set_variable on an existing name leaves that variable's legacy id as it
\* was, and the ids a solution hands out are strictly increasing.
C15_LegacyIdStable ==
    [][/\ (last'.op = "set_variable" /\ last'.name \in DOMAIN lvariables[last'.sol])
          => lvariables'[last'.sol][last'.name].legacy_id
               = lvariables[last'.sol][last'.name].legacy_id
       /\ \A s \in SolNames : legacy_id_counter'[s] >= legacy_id_counter[s]]_vars

\* Solution s owns a variable called name whose legacy id is id.
OwnsLegacy(s, id, name) ==
    /\ name \in DOMAIN lvariables[s]
    /\ lvariables[s][name].legacy_id = id

\* C16: every '#<id>.<name>' token is rewritten to '<name>.<solution>' for a
\* solution that owns a variable <name> with legacy id <id>, the current
\* solution first; when no solution owns one the token is left as it is.
C16_LegacyTranslation ==
    last.op = "convert_legacy_references"
    => \A i \in 1..Len(last.expr.rhs) :
         LET tok == last.expr.rhs[i]
             owners == {s \in SolNames : OwnsLegacy(s, tok.n, tok.a)}
         IN  tok.k = "legacy"
             => IF last.sol \in owners THEN last.ret[i] = TRef(tok.a, last.sol)
                ELSE IF owners # {} THEN last.ret[i] \in {TRef(tok.a, s) : s \in owners}
                ELSE last.ret[i] = tok

\* C17: alias isolation.  set_alias on solution A leaves the alias table of
\* every other solution unchanged, and get_variable on a solution, by name or
\* by alias, returns nothing or a variable of that solution.
C17_AliasIsolation ==
    [][/\ last'.op = "set_alias"
          => \A s \in SolNames \ {last'.sol} : aliases'[s] = aliases[s]
       /\ \A s \in SolNames, n \in AliasNames \cup VarNames :
            get_variable(variables'[s], aliases'[s], n) # NoVariable
            => get_variable(variables'[s], aliases'[s], n).solution_name = s]_vars

\* C17 witness: L was made an alias of a in X while Y has a variable a of
\* its own, and L resolves to X's a in X and to nothing in Y.
C17_Witness ==
    /\ last.op = "set_alias"
    /\ ~last.raised
    /\ last.sol = "X"
    /\ last.name = "L"
    /\ "a" \in DOMAIN variables["Y"]
    /\ get_variable(variables["X"], aliases["X"], "L") = variables["X"]["a"]
    /\ get_variable(variables["Y"], aliases["Y"], "L") = NoVariable

\* The reference tok goes through a name that is an alias, and not a
\* variable, of the solution it addresses.
IsAliasOnlyRef(tok) ==
    /\ tok.b \in registry
    /\ tok.a \notin DOMAIN variables[tok.b]
    /\ tok.a \in DOMAIN aliases[tok.b]

\* C18: a formula evaluated from solution B that contains '<alias>.<A>',
\* <alias> being only an alias of A, fails to resolve the reference.
C18_AliasNotCrossSolution ==
    (/\ LastExecuted("formula")
     /\ \E tok \in RefsOf(last.expr.rhs) : tok.b # last.sol /\ IsAliasOnlyRef(tok))
    => Target.computation_error # NoError

\* C19: get_computed_value(reg) called twice in a row on the same variable,
\* nothing else happening in between, returns the same result the second
\* time and leaves every variable as the first call left it.
C19_Idempotence ==
    [][(/\ last.op = "get_computed_value"
        /\ last'.op = "get_computed_value"
        /\ last'.sol = last.sol
        /\ last'.name = last.name)
       => /\ last'.ret = last.ret
          /\ variables' = variables]_vars

\* C20: reading a formula variable without a registry (the value property)
\* returns the cached value and changes nothing: every variable and every
\* alias table is as it was.
C20_ReadWithoutRegistry ==
    [][last'.op = "value"
       => /\ variables' = variables
          /\ aliases' = aliases
          /\ variables[last'.sol][last'.name].is_formula
             => last'.ret = variables[last'.sol][last'.name].last_computed_value]_vars

\* C20 witness: a formula that copies a literal was read without a registry
\* after the literal was changed, and the read returned the old cached value.
C20_Witness ==
    /\ last.op = "value"
    /\ Target.is_formula
    /\ Len(Target.formula) = 1
    /\ IsNumericLiteralRef(Target.formula[1])
    /\ Target.computation_error = NoError
    /\ last.ret = Target.last_computed_value
    /\ last.ret # variables[Target.formula[1].b][Target.formula[1].a]._value

\* ------------------------------------------------------------------------
\* Names of variables and aliases (variable_system_v2.py)
\* ------------------------------------------------------------------------

\* Names handed to create_variable: an identifier, one starting with a digit,
\* one starting with an underscore, and one holding a dot.
NameInputs == {"a", "1a", "_x", "a.b"}

\* Aliases handed to set_alias, and the variables they are pointed at ("zz"
\* is never created).
AliasInputs == {"L", "p.q", "p@q"}
AliasTargets == {"a", "zz"}

\* L=<MaxLiteral>, a@X=.., 1a@X=.., 1a=.., _x@X=.., _x@X=a.X
NameStatements ==
    {PlainStmt("L", LitMax), AtStmt("a", "X", LitMax), AtStmt("1a", "X", LitMax),
     PlainStmt("1a", LitMax), AtStmt("_x", "X", LitMax), AtStmt("_x", "X", F_aX)}

NameNext ==
    \/ \E n \in NameInputs : CreateVariable("X", n, Num(1))
    \/ \E al \in AliasInputs, n \in AliasTargets : SetAlias("X", al, n)
    \/ \E s \in SolNames, e \in NameStatements : Execute(s, e)

NameSpec == Init /\ [][NameNext]_vars

\* '@' not in name and '.' not in name
NoAddressCharacter(name) ==
    \A i \in 1..Len(name) : CharAt(name, i) # "@" /\ CharAt(name, i) # "."

\* C21: whatever create_variable, set_alias and execute_expression calls were
\* made, every key of a solution's alias table holds neither '@' nor '.', and
\* the name it maps to is a key of that solution's variables.
C21_AliasTable ==
    \A s \in SolNames : \A k \in DOMAIN aliases[s] :
        /\ NoAddressCharacter(k)
        /\ aliases[s][k] \in DOMAIN variables[s]

\* Y holds the alias an ALIAS statement made, X one made by set_alias, and a
\* set_alias with a dotted alias has just been refused.
C21_Witness ==
    /\ "L" \in DOMAIN aliases["Y"] /\ aliases["Y"]["L"] = "_alias_L"
    /\ "L" \in DOMAIN aliases["X"] /\ aliases["X"]["L"] = "a"
    /\ last.op = "set_alias" /\ last.name = "p.q" /\ last.arg = "a" /\ last.raised

\* ExpressionParser.validate_name (variable_system.py): non-empty, first
\* character a letter or a digit, neither '@' nor '.', every character a
\* letter, a digit or '_'.
validate_name(name) ==
    /\ Len(name) > 0
    /\ CharAt(name, 1) \in Letters \cup Digits
    /\ NoAddressCharacter(name)
    /\ \A i \in 1..Len(name) : CharAt(name, i) \in Letters \cup Digits \cup {"_"}

\* C22: every variable name stored in a solution is a valid name (non-empty,
\* first character a letter or digit, the rest letters, digits or '_', no
\* '@', no '.'), and a statement whose variable name is valid is accepted by
\* the classifier.
C22_ValidNames ==
    /\ \A s \in SolNames : \A n \in DOMAIN variables[s] : validate_name(n)
    /\ (last.op = "execute" /\ validate_name(last.expr.lhs))
           => parse_expression(last.expr).type # "invalid"

\* C23: registering a solution whose name is already in the registry is
\* rejected with no partial mutation: afterwards the registry maps that name
\* to the solution registered first, with the variables and aliases it had.
C23_RegisterExistingRejected ==
    [][(last'.op = "new_solution" /\ last'.sol \in registry)
          => /\ registry' = registry
             /\ variables'[last'.sol] = variables[last'.sol]
             /\ aliases'[last'.sol] = aliases[last'.sol]
             /\ hvariables'[last'.sol] = hvariables[last'.sol]
             /\ next_variable_id'[last'.sol] = next_variable_id[last'.sol]]_vars

\* ------------------------------------------------------------------------
\* V2FormulaEvaluator.evaluate_formula called on its own
\* ------------------------------------------------------------------------

\* V2FormulaEvaluator.evaluate_formula(formula, solutions): the float it
\* returns, or the ValueError it raises; nothing is assigned.
EvaluateFormula(formula) ==
    /\ \E r \in {evaluate_formula(formula, variables, aliases, registry)} :
           last' = Last("evaluate_formula", "", "", "", PlainStmt("", formula),
                        IF r.ok THEN Num(r.n) ELSE None, ~r.ok, NoVariable)
    /\ UNCHANGED <<registry, variables, aliases>>
    /\ HybridUnchanged

\* a@X=<MaxLiteral>, a@X=white, b@Y=a.X, and L=<MaxLiteral> run inside X
EvalStatements ==
    {AtStmt("a", "X", LitMax), AtStmt("a", "X", LitText), AtStmt("b", "Y", F_aX),
     PlainStmt("L", LitMax)}

\* "a.X+L.X", "b.Y*2", "a.nosuch", "n.X+1", "z.X"
EvalFormulas ==
    {<<TRef("a", "X"), TOp("+"), TRef("L", "X")>>,
     <<TRef("b", "Y"), TOp("*"), TNum(2)>>,
     F_nosuch,
     <<TRef("n", "X"), TOp("+"), TNum(1)>>,
     <<TRef("z", "X")>>}

EvalNext ==
    \/ \E e \in EvalStatements : Execute(IF e.at THEN e.sol ELSE "X", e)
    \/ CreateVariable("X", "n", None)
    \/ \E f \in EvalFormulas : EvaluateFormula(f)

EvalSpec == Init /\ [][EvalNext]_vars

\* The reference tok names a solution that is not registered, a name that is
\* neither a variable nor an alias of that solution, or a variable whose
\* value is not a number.
Unresolvable(tok) ==
    \/ tok.b \notin registry
    \/ get_variable(variables[tok.b], aliases[tok.b], tok.a) = NoVariable
    \/ ~IsNumeric(value_getter(get_variable(variables[tok.b], aliases[tok.b], tok.a)))

\* C24: evaluate_formula raises, and returns no number, whenever some
\* reference of the formula names an unregistered solution, a name the
\* solution does not hold, or a variable whose value is not numeric; no
\* default takes the place of such a reference.
C24_UnresolvedReferenceFails ==
    (last.op = "evaluate_formula" /\ \E tok \in RefsOf(last.expr.rhs) : Unresolvable(tok))
        => last.raised /\ last.ret = None

\* "a.X+L.X" has just been evaluated while L resolves to a number and a holds
\* the text "white".
C24_Witness ==
    /\ last.op = "evaluate_formula"
    /\ last.expr.rhs = <<TRef("a", "X"), TOp("+"), TRef("L", "X")>>
    /\ "L" \in DOMAIN aliases["X"]
    /\ "a" \in DOMAIN variables["X"] /\ variables["X"]["a"]._value = Str("white")
    /\ last.raised

\* ExpressionParser.math_functions (variable_system.py): the names of the
\* fourteen functions.
math_functions ==
    {"sqrt", "sin", "cos", "tan", "abs", "max", "min", "pow", "exp", "log", "log10",
     "ceil", "floor", "round"}

\* Functions called on two numbers; the others are called on one.
TwoArguments == {"min", "max", "pow"}

\* The text "f(1)", or "f(2,1)" for a function of two arguments.
CallFormula(f) ==
    IF f \in TwoArguments
    THEN <<TWord(f), TOp("("), TNum(2), TOp(","), TNum(1), TOp(")")>>
    ELSE <<TWord(f), TOp("("), TNum(1), TOp(")")>>

\* A call of each of the fourteen functions, and of the builtin int.
CallFormulas == {CallFormula(f) : f \in math_functions \cup {"int"}}

CallNext ==
    \/ EvalNext
    \/ \E f \in CallFormulas : EvaluateFormula(f)

CallSpec == Init /\ [][CallNext]_vars

\* C25: the evaluator accepts exactly the fourteen names sqrt, sin, cos, tan,
\* abs, min, max, pow, exp, log, log10, ceil, floor, round: a formula calling
\* one of them on valid numbers evaluates, a formula calling any other name
\* fails.
C25_ClosedFunctionSet ==
    (last.op = "evaluate_formula" /\ last.expr.rhs \in CallFormulas)
        => (last.raised <=> last.expr.rhs[1].a \notin math_functions)

\* ------------------------------------------------------------------------
\* The two variables of a name in the V2 hybrid layer
\* ------------------------------------------------------------------------

\* hybrid_var.value = new_value: the setter of HybridVariable hands the value
\* to the V2Variable the hybrid variable made for itself.
HSetValue(s, name, new_value) ==
    /\ s \in registry
    /\ name \in DOMAIN hvariables[s]
    /\ hvariables' = [hvariables EXCEPT ![s][name].v2_variable = value_setter(@, new_value)]
    /\ last' = Last("set_value", s, name, "", NoStmt, None, FALSE,
                    hvariables[s][name].v2_variable)
    /\ UNCHANGED <<registry, variables, aliases, next_variable_id, dependency_graph,
                   reverse_dependencies>>
    /\ LegacyUnchanged

IdentityNext ==
    \/ \E s \in SolNames : NewHybridSolution(s)
    \/ \E c \in HybridCreated : HCreateVariable(c[1], c[2], Num(1), "controllable", << >>)
    \/ \E c \in HybridCreated : HSetValue(c[1], c[2], Num(MaxLiteral))
    \/ \E e \in HybridStatements : ExecuteV2(e.sol, e)

IdentitySpec == HybridInit /\ [][IdentityNext]_vars

\* C26: one variable identity per name in the hybrid layer: for every
\* variable name of a HybridSolution, the value, the formula flag and the
\* cached result seen through solution.variables[n] equal those of
\* solution.v2_solution.variables[n], the variable formulas resolve.
C26_OneIdentity ==
    \A s \in registry : \A n \in DOMAIN hvariables[s] :
        /\ n \in DOMAIN variables[s]
        /\ value_getter(hvariables[s][n].v2_variable) = value_getter(variables[s][n])
        /\ hvariables[s][n].v2_variable.is_formula = variables[s][n].is_formula
        /\ CachedValue(hvariables[s][n].v2_variable) = CachedValue(variables[s][n])

\* ------------------------------------------------------------------------
\* Reading a value in the legacy core (variable_system.py)
\* ------------------------------------------------------------------------

\* The interpreter's limit on nested get_variable_value calls: the call that
\* would exceed it raises RecursionError.
RecursionLimit == 4

\* Solution.set_variable (variable_system.py) on the table lv_s: a Variable
\* without a legacy id; a str value is a formula and makes it CALCULATED.
Solution_set_variable(lv_s, var_name, value, formula, is_formula) ==
    (var_name :> LegacyVariable(var_name, value, formula, is_formula,
                                IF is_formula THEN "calculated" ELSE "controllable",
                                NoLegacyId,
                                IF is_formula THEN find_read_references(formula) ELSE {}))
    @@ lv_s

\* solution.set_variable(var_name, value)
SolutionSetVariable(s, var_name, value, formula, is_formula) ==
    /\ call_stack = << >>
    /\ lvariables' = [lvariables EXCEPT ![s] =
                         Solution_set_variable(@, var_name, value, formula, is_formula)]
    /\ last' = Last("set_variable", s, var_name, "", NoStmt, PyBool(TRUE), FALSE, NoVariable)
    /\ UNCHANGED <<registry, variables, aliases, hvariables, next_variable_id,
                   dependency_graph, reverse_dependencies, legacy_id_counter,
                   legacy_references, call_stack>>
    /\ HierarchyUnchanged

\* One get_variable_value call on a formula variable: the values of the
\* references evaluate_expression has replaced so far, and whether it raised.
Frame(s, name) == [sol |-> s, name |-> name, resolved |-> << >>, failed |-> FALSE]

IsRef(tok) == tok.k = "ref"

\* ExpressionParser.find_read_references as the list evaluate_expression
\* loops over.
ReadReferences(formula) == SelectSeq(formula, IsRef)

\* The text after every reference was replaced by str(value).
RECURSIVE ReplaceReferences(_, _)
ReplaceReferences(formula, resolved) ==
    IF formula = << >> THEN << >>
    ELSE IF Head(formula).k = "ref"
    THEN StrOfNumber(Head(resolved).n) \o ReplaceReferences(Tail(formula), Tail(resolved))
    ELSE <<Head(formula)>> \o ReplaceReferences(Tail(formula), resolved)

\* eval of the replaced text: float(result), or None after the ValueError
\* that get_variable_value catches.
EvaluatedOrNone(r) == IF r.ok THEN Num(r.n) ELSE None

TopFrame == call_stack[Len(call_stack)]
TopFormula == lvariables[TopFrame.sol][TopFrame.name].formula

WithTop(frame) == [call_stack EXCEPT ![Len(call_stack)] = frame]

CoreUnchanged ==
    /\ UNCHANGED <<registry, variables, aliases, hvariables, next_variable_id,
                   dependency_graph, reverse_dependencies, lvariables, legacy_id_counter,
                   legacy_references>>
    /\ HierarchyUnchanged

\* solution.get_variable_value(identifier), called by the host: None for a
\* name the solution does not hold, float(value) for a number, and for a
\* formula the call of evaluate_expression begins.
GetVariableValue(s, identifier) ==
    /\ call_stack = << >>
    /\ IF identifier \notin DOMAIN lvariables[s]
       THEN /\ last' = Last("get_variable_value", s, identifier, "", NoStmt, None, FALSE,
                            NoVariable)
            /\ UNCHANGED call_stack
       ELSE IF ~lvariables[s][identifier].is_formula
       THEN /\ last' = Last("get_variable_value", s, identifier, "", NoStmt,
                            lvariables[s][identifier].value, FALSE, NoVariable)
            /\ UNCHANGED call_stack
       ELSE /\ call_stack' = <<Frame(s, identifier)>>
            /\ last' = Last("call", s, identifier, "", NoStmt, None, FALSE, NoVariable)
    /\ CoreUnchanged

\* What the loop of evaluate_expression does with reference ref:
\* _get_variable_value gives None for an unregistered solution or a name it
\* does not hold, and the loop raises; a number is replaced into the text; a
\* formula variable is read by a nested get_variable_value, which raises
\* RecursionError at the interpreter's limit.
Resolve(ref) ==
    IF ref.b \notin registry \/ ref.a \notin DOMAIN lvariables[ref.b]
    THEN WithTop([TopFrame EXCEPT !.failed = TRUE])
    ELSE IF ~lvariables[ref.b][ref.a].is_formula
    THEN WithTop([TopFrame EXCEPT !.resolved = Append(@, lvariables[ref.b][ref.a].value)])
    ELSE IF Len(call_stack) >= RecursionLimit
    THEN WithTop([TopFrame EXCEPT !.failed = TRUE])
    ELSE Append(call_stack, Frame(ref.b, ref.a))

\* FormulaEvaluator.evaluate_expression: the next reference of the loop
EvaluateReference ==
    /\ call_stack # << >>
    /\ ~TopFrame.failed
    /\ Len(TopFrame.resolved) < Len(ReadReferences(TopFormula))
    /\ call_stack' = Resolve(ReadReferences(TopFormula)[Len(TopFrame.resolved) + 1])
    /\ UNCHANGED last
    /\ CoreUnchanged

\* The value the call on top of the stack returns.
ReturnedValue ==
    IF TopFrame.failed THEN None
    ELSE EvaluatedOrNone(PyEval(ReplaceCaret(ReplaceReferences(TopFormula, TopFrame.resolved))))

\* The caller's loop takes the value: None makes it raise.
Deliver(caller, value) ==
    IF value = None THEN [caller EXCEPT !.failed = TRUE]
    ELSE [caller EXCEPT !.resolved = Append(@, value)]

\* The innermost get_variable_value returns, to the loop of its caller or to
\* the host.
ReturnValue ==
    /\ call_stack # << >>
    /\ TopFrame.failed \/ Len(TopFrame.resolved) = Len(ReadReferences(TopFormula))
    /\ IF Len(call_stack) = 1
       THEN /\ call_stack' = << >>
            /\ last' = Last("get_variable_value", TopFrame.sol, TopFrame.name, "", NoStmt,
                            ReturnedValue, FALSE, NoVariable)
       ELSE /\ call_stack' =
                  [SubSeq(call_stack, 1, Len(call_stack) - 1)
                     EXCEPT ![Len(call_stack) - 1] = Deliver(@, ReturnedValue)]
            /\ UNCHANGED last
    /\ CoreUnchanged

\* a in X is 1 or the formula "b.Y", b in Y is 1 or "a.X", c in X is "1-c.X"
CoreNext ==
    \/ \E c \in HybridCreated : SolutionSetVariable(c[1], c[2], Num(1), NoFormula, FALSE)
    \/ SolutionSetVariable("X", "a", None, F_bY, TRUE)
    \/ SolutionSetVariable("Y", "b", None, F_aX, TRUE)
    \/ SolutionSetVariable("X", "c", None, F_self, TRUE)
    \/ \E s \in SolNames, n \in VarNames : GetVariableValue(s, n)
    \/ EvaluateReference
    \/ ReturnValue

CoreSpec == Init /\ [][CoreNext]_vars

\* The formula variables the registered solutions hold.
FormulaVariables ==
    {sn \in SolNames \X VarNames :
        sn[2] \in DOMAIN lvariables[sn[1]] /\ lvariables[sn[1]][sn[2]].is_formula}

\* C27: reading a value in the legacy core runs with bounded recursion depth
\* whatever the registry holds, cycles and self-references included: the
\* nested get_variable_value calls never outnumber the formula variables.
C27_BoundedRecursion == Len(call_stack) <= Cardinality(FormulaVariables)

\* ------------------------------------------------------------------------
\* The tracker across overwrites and resets (visual_solving_advanced_v2.py)
\* ------------------------------------------------------------------------

\* v2_solution_manager.reset(): solutions and v2_solutions are cleared; the
\* tracker is another object and is not touched.
Reset ==
    /\ registry' = {}
    /\ last' = Last("reset", "", "", "", NoStmt, None, FALSE, NoVariable)
    /\ UNCHANGED <<variables, aliases, hvariables, next_variable_id, dependency_graph,
                   reverse_dependencies>>
    /\ LegacyUnchanged

StaleNext ==
    \/ \E s \in SolNames : NewHybridSolution(s)
    \/ \E c \in HybridCreated : HCreateVariable(c[1], c[2], Num(1), "controllable", << >>)
    \/ \E e \in HybridStatements : ExecuteV2(e.sol, e)
    \/ Reset

StaleSpec == HybridInit /\ [][StaleNext]_vars

\* C28: the tracker holds no stale edges: each id with a non-empty forward
\* set names a variable that exists in a registered solution and is a formula
\* whose dependencies are that set; a literal Assignment over a formula
\* variable removes its edges, and after reset() the tracker is empty.
C28_NoStaleEdges ==
    /\ \A id \in DOMAIN dependency_graph :
          dependency_graph[id] # {}
             => /\ id[2] \in registry
                /\ id[1] \in DOMAIN variables[id[2]]
                /\ variables[id[2]][id[1]].is_formula
                /\ variables[id[2]][id[1]].dependencies = dependency_graph[id]
    /\ last.op = "reset"
          => /\ \A id \in DOMAIN dependency_graph : dependency_graph[id] = {}
             /\ \A id \in DOMAIN reverse_dependencies : reverse_dependencies[id] = {}

\* ------------------------------------------------------------------------
\* The hierarchical system (visual_solving_hierarchical.py)
\* ------------------------------------------------------------------------

\* Solutions are constructed while the numbers handed out, and the objects
\* alive, stay within this bound.
MaxSolutionNumber == 4

\* HierarchicalVariable after the manager numbered it
HierarchicalVariable(name, value, solution_number, variable_number) ==
    [name |-> name, value |-> value, solution_number |-> solution_number,
     variable_number |-> variable_number]

\* HierarchicalVariable.full_id "#<solution_number>.<variable_number>", kept
\* as a pair.
full_id(var) == <<var.solution_number, var.variable_number>>

\* HierarchicalVariableManager.__init__
HierarchicalVariableManager(solution_number) ==
    [solution_number |-> solution_number, _variables |-> EmptyDict,
     _name_map |-> EmptyDict, _alias_map |-> EmptyDict, _next_var_number |-> 1]

\* HierarchicalVariableManager.create_variable
Manager_create_variable(m, name, value, als) ==
    [m EXCEPT
       !._variables = (m._next_var_number :>
                          HierarchicalVariable(name, value, m.solution_number,
                                               m._next_var_number)) @@ @,
       !._name_map = (name :> m._next_var_number) @@ @,
       !._alias_map = [a \in als |-> m._next_var_number] @@ @,
       !._next_var_number = @ + 1]

\* The variable stored under var_number, "" standing for None.
NoHierarchicalVariable == HierarchicalVariable("", None, 0, 0)
VariableNumbered(m, var_number) ==
    IF var_number \in DOMAIN m._variables THEN m._variables[var_number]
    ELSE NoHierarchicalVariable

\* HierarchicalVariableManager.get_variable_by_reference on the reference
\* "#<solution_num>.<second_part>", second_part being a name: None for the
\* number of another solution, then the name map, then the alias map.
Manager_get_variable_by_reference(m, solution_num, second_part) ==
    IF solution_num # m.solution_number THEN NoHierarchicalVariable
    ELSE IF second_part \in DOMAIN m._name_map
    THEN VariableNumbered(m, m._name_map[second_part])
    ELSE IF second_part \in DOMAIN m._alias_map
    THEN VariableNumbered(m, m._alias_map[second_part])
    ELSE NoHierarchicalVariable

\* BoxSolution._setup_variables on the manager of a new solution
Box_setup_variables(m, length, width, height) ==
    Manager_create_variable(
        Manager_create_variable(
            Manager_create_variable(
                Manager_create_variable(m, "length", length, {"L", "len"}),
                "width", width, {"W", "wid"}),
            "height", height, {"H", "hei"}),
        "volume", Num(length.n * width.n * height.n), {"vol"})

\* BoxSolution(name, length, width, height) when get_next_number gave number:
\* the object, whose manager and variables carry that number.
BoxSolution(name, number, length, width, height) ==
    [name |-> name, solution_number |-> number,
     variables |-> Box_setup_variables(HierarchicalVariableManager(number),
                                       length, width, height)]

\* VsolFormat._serialize_solution: the number, the name, and the variables
\* under their full ids.
_serialize_solution(solution) ==
    [solution_number |-> solution.solution_number, name |-> solution.name,
     type |-> "BoxSolution",
     variables |-> [id \in {full_id(solution.variables._variables[k]) :
                               k \in DOMAIN solution.variables._variables} |->
                       [name |-> solution.variables._variables[id[2]].name,
                        value |-> solution.variables._variables[id[2]].value]]]

\* The value _deserialize_solution picks for a constructor parameter: that
\* of the entry of this name.
ValueNamed(data, name) ==
    LET ids == {id \in DOMAIN data.variables : data.variables[id].name = name}
    IN  IF ids = {} THEN None ELSE data.variables[CHOOSE id \in ids : TRUE].value

Max(a, b) == IF a >= b THEN a ELSE b

\* BoxSolution(name, length, width, height) built by the host: Solution.__init__
\* takes the next number and registers the object under it.
NewBoxSolution(name, length) ==
    /\ _next_number <= MaxSolutionNumber
    /\ Len(solutions) < MaxSolutionNumber
    /\ solutions' = Append(solutions,
                           BoxSolution(name, _next_number, length, Num(1), Num(1)))
    /\ _solution_registry' = (_next_number :> Len(solutions) + 1) @@ _solution_registry
    /\ _next_number' = _next_number + 1
    /\ last' = Last("new_box", "", name, "", NoStmt, Num(_next_number), FALSE, NoVariable)
    /\ UNCHANGED <<registry, variables, aliases, hvariables, next_variable_id,
                   dependency_graph, reverse_dependencies, lvariables, legacy_id_counter,
                   legacy_references, call_stack>>

\* VsolFormat._deserialize_solution(data): _next_number is moved past the
\* stored number, the BoxSolution constructor builds the object (taking and
\* registering the next number), then solution_number is assigned the stored
\* number and the object is registered under it.
Deserialize(data) ==
    /\ Max(_next_number, data.solution_number + 1) <= MaxSolutionNumber
    /\ Len(solutions) < MaxSolutionNumber
    /\ LET number == Max(_next_number, data.solution_number + 1)
           built == BoxSolution(data.name, number, ValueNamed(data, "length"),
                                ValueNamed(data, "width"), ValueNamed(data, "height"))
       IN  /\ solutions' = Append(solutions,
                                  [built EXCEPT !.solution_number = data.solution_number])
           /\ _solution_registry' =
                  (data.solution_number :> Len(solutions) + 1)
                  @@ (number :> Len(solutions) + 1) @@ _solution_registry
           /\ _next_number' = number + 1
    /\ last' = Last("deserialize", "", data.name, "", NoStmt, Num(data.solution_number),
                    FALSE, NoVariable)
    /\ UNCHANGED <<registry, variables, aliases, hvariables, next_variable_id,
                   dependency_graph, reverse_dependencies, lvariables, legacy_id_counter,
                   legacy_references, call_stack>>

\* solution_number_manager.reset()
ResetNumbers ==
    /\ _next_number' = 1
    /\ _solution_registry' = EmptyDict
    /\ last' = Last("reset", "", "", "", NoStmt, None, FALSE, NoVariable)
    /\ UNCHANGED <<registry, variables, aliases, hvariables, next_variable_id,
                   dependency_graph, reverse_dependencies, lvariables, legacy_id_counter,
                   legacy_references, call_stack, solutions>>

HierarchyNext ==
    \/ \E n \in 1..MaxLiteral : NewBoxSolution("panel", Num(n))
    \/ \E i \in 1..Len(solutions) : Deserialize(_serialize_solution(solutions[i]))
    \/ ResetNumbers

HierarchySpec == Init /\ [][HierarchyNext]_vars

\* The solution _deserialize_solution has just returned.
Reconstructed == solutions[Len(solutions)]

\* C29: after _deserialize_solution(_serialize_solution(s)) the
\* reconstructed solution has s's solution number, every entry of the number
\* registry maps a number k to a solution whose solution_number is k, and
\* every variable of the reconstructed solution is found by
\* '#<solution_number>.<name>' and has a full id starting with that number.
C29_PersistenceRoundTrip ==
    last.op = "deserialize"
       => /\ Reconstructed.solution_number = last.ret.n
          /\ \A k \in DOMAIN _solution_registry :
                solutions[_solution_registry[k]].solution_number = k
          /\ \A n \in DOMAIN Reconstructed.variables._variables :
                LET var == Reconstructed.variables._variables[n]
                IN  /\ Manager_get_variable_by_reference(
                           Reconstructed.variables, Reconstructed.solution_number,
                           var.name) = var
                    /\ full_id(var)[1] = Reconstructed.solution_number

\* C30: execute_expression on solution S with an Assignment or Formula
\* statement whose write address names another solution raises and changes
\* nothing: no variable and no alias of any solution is created or changed.
C30_OtherSolutionRejected ==
    [][(/\ last'.op = "execute"
        /\ parse_expression(last'.expr).type \in {"assignment", "formula"}
        /\ parse_expression(last'.expr).solution # last'.sol)
          => /\ last'.raised
             /\ variables' = variables
             /\ aliases' = aliases
             /\ registry' = registry]_vars

\* Y has just refused "_x@X=a.X" while X holds a and Y holds the variable of
\* an alias.
C30_Witness ==
    /\ last.op = "execute" /\ last.sol = "Y" /\ last.raised
    /\ last.expr = AtStmt("_x", "X", F_aX)
    /\ "a" \in DOMAIN variables["X"]
    /\ "_alias_L" \in DOMAIN variables["Y"]

====
